---- MODULE Spec2Model ----
(***************************************************************************)
(* Model of debugger/examples/avl/avl.c: an AVL tree with insertion        *)
(* (tree_put), balance-factor propagation (tree_rebalance), single and     *)
(* double rotation (tree_rotate, tree_left_rotate, tree_right_rotate) and  *)
(* whole-tree teardown (tree_delete).                                      *)
(*                                                                         *)
(* The heap is the function mem from allocated addresses to tree_node      *)
(* structs; NULL is address 0.  A call runs to completion in one step      *)
(* (the program is single-threaded); inside a call the C statements are    *)
(* applied one after another to a machine record m =                       *)
(* [root, mem, fault, log, ret].  fault records how the process died,      *)
(* if it did: a failed assert() (builds without NDEBUG call abort()) or    *)
(* the dereference of a null pointer.                                      *)
(***************************************************************************)
EXTENDS Integers, Sequences, FiniteSets, TLC

\* Largest key the free-running client inserts.
MaxKey == 8

Keys == 1..MaxKey

NULL == 0

\* The keys main() inserts, in order (avl.c:316-324).
MainScript == <<12, 4, 5, 6, 2, 8, 10, 2, 1>>

VARIABLES
    NDEBUG,   \* build flag: TRUE when assert() is compiled out
    root,     \* t->root
    mem,      \* the heap: address -> tree_node
    fault,    \* "none", or why the process stopped
    log,      \* events of the latest call, in program order
    pre,      \* root and heap as they were when the latest call started
    call,     \* the latest call and its inputs
    script,   \* keys the scripted client (main) still has to insert
    pc,       \* position of the scripted client in script
    oom       \* TRUE once some malloc of the scripted client has failed

vars == <<NDEBUG, root, mem, fault, log, pre, call, script, pc, oom>>

-----------------------------------------------------------------------------
(* Machine records and memory access *)

tree_node(l, r, p, i, k) ==
    [left |-> l, right |-> r, parent |-> p, imbalance |-> i, key |-> k]

Machine == [root |-> root, mem |-> mem, fault |-> "none", log |-> <<>>, ret |-> NULL]

Running(m) == m.fault = "none"

Event(e, a, b, x, y) == [ev |-> e, a |-> a, b |-> b, x |-> x, y |-> y]

Emit(m, e) == [m EXCEPT !.log = Append(@, e)]

\* assert(cond): nothing under NDEBUG, abort() when cond is false otherwise.
assert(m, cond, name) ==
    IF ~Running(m) \/ NDEBUG \/ cond THEN m ELSE [m EXCEPT !.fault = name]

\* A null pointer or a released node is dereferenced: the process is killed.
Segv(m, where) == [m EXCEPT !.fault = where]

\* A tree_node** : the root link of the tree or a child link of node `of`.
RootSlot == [kind |-> "root", of |-> NULL]
LeftSlot(n) == [kind |-> "left", of |-> n]
RightSlot(n) == [kind |-> "right", of |-> n]

Deref(m, slot) ==
    CASE slot.kind = "root" -> m.root
      [] slot.kind = "left" -> m.mem[slot.of].left
      [] slot.kind = "right" -> m.mem[slot.of].right

Store(m, slot, v) ==
    CASE slot.kind = "root" -> [m EXCEPT !.root = v]
      [] slot.kind = "left" -> [m EXCEPT !.mem[slot.of].left = v]
      [] slot.kind = "right" -> [m EXCEPT !.mem[slot.of].right = v]

TREE_PARENTPTR(m, pnode) ==
    IF m.mem[pnode].parent # NULL
    THEN IF pnode = m.mem[m.mem[pnode].parent].left
         THEN LeftSlot(m.mem[pnode].parent)
         ELSE RightSlot(m.mem[pnode].parent)
    ELSE RootSlot

\* TREE_SIDEOF as the truth value of pnode == parent->right: 1 for a right
\* child and 0 for a left child.
TREE_SIDEOF_truth_value(m, pnode) ==
    IF m.mem[pnode].parent # NULL
    THEN IF pnode = m.mem[m.mem[pnode].parent].right THEN 1 ELSE 0
    ELSE 0

TREE_SIDEOF(m, pnode) ==
    IF m.mem[pnode].parent # NULL
    THEN IF pnode = m.mem[m.mem[pnode].parent].left THEN -1 ELSE 1
    ELSE 0

\* malloc: alloc is the allocator's outcome, NULL or an unused address.
malloc(m, alloc) == Emit([m EXCEPT !.ret = alloc], Event("malloc", alloc, NULL, 0, 0))

\* *p = init, the first write to a freshly allocated struct.
StoreNode(m, p, init) ==
    [m EXCEPT !.mem = [n \in (DOMAIN m.mem) \cup {p} |->
                          IF n = p THEN init ELSE m.mem[n]]]

free(m, p) ==
    IF ~Running(m) THEN m ELSE
    Emit([m EXCEPT !.mem = [n \in (DOMAIN m.mem) \ {p} |-> m.mem[n]]],
         Event("free", p, NULL, 0, 0))

\* if (c) c->parent = a;
SetParentIfAny(m, c, a) ==
    IF c # NULL THEN [m EXCEPT !.mem[c].parent = a] ELSE m

\* The imbalances stored in a and b at this point of a rotation, for the log.
LogRotation(m, e, a, b) ==
    IF ~Running(m) THEN m ELSE
    Emit(m, Event(e, a, b, m.mem[a].imbalance, m.mem[b].imbalance))

-----------------------------------------------------------------------------
(* Heights measured from the child links of a heap s (a record with the     *)
(* fields root and mem).  fuel bounds the descent, so that they are defined *)
(* on any heap.                                                             *)

Max(x, y) == IF x >= y THEN x ELSE y

Live(s, n) == n # NULL /\ n \in DOMAIN s.mem

RECURSIVE HeightFrom(_, _, _)
HeightFrom(s, n, fuel) ==
    IF ~Live(s, n) \/ fuel = 0 THEN 0
    ELSE 1 + Max(HeightFrom(s, s.mem[n].left, fuel - 1),
                 HeightFrom(s, s.mem[n].right, fuel - 1))

Height(s, n) == HeightFrom(s, n, Cardinality(DOMAIN s.mem))

MeasuredImbalance(s, n) == Height(s, s.mem[n].right) - Height(s, s.mem[n].left)

RECURSIVE InOrderNodesFrom(_, _, _)
InOrderNodesFrom(s, n, fuel) ==
    IF ~Live(s, n) \/ fuel = 0 THEN <<>>
    ELSE InOrderNodesFrom(s, s.mem[n].left, fuel - 1) \o <<n>>
         \o InOrderNodesFrom(s, s.mem[n].right, fuel - 1)

\* The nodes of the subtree under n, left to right.
InOrderNodes(s, n) == InOrderNodesFrom(s, n, Cardinality(DOMAIN s.mem))

\* The imbalances that the subtrees of a and b measure at this point of a
\* rotation, for the log.
LogMeasured(m, e, a, b) ==
    IF ~Running(m) THEN m ELSE
    Emit(m, Event(e, a, b, MeasuredImbalance(m, a), MeasuredImbalance(m, b)))

-----------------------------------------------------------------------------
(* Rotations *)

\* The two closing assertions of a rotation (avl.c:275-276, 310-311).
tree_rotate_asserts(m, a, b, name_a, name_b) ==
    assert(assert(m, m.mem[a].imbalance >= -1 /\ m.mem[a].imbalance <= 1, name_a),
           m.mem[b].imbalance >= -1 /\ m.mem[b].imbalance <= 1, name_b)

\* tree_left_rotate_rewire without line 265 (c keeps b as its parent).
tree_left_rotate_rewire_no_reparent(m, node, a, b, c, p) ==
    IF ~Running(m) THEN m ELSE
    LET m1 == Store(m, node, b)
        m2 == [m1 EXCEPT !.mem[b].parent = p]
        m3 == [m2 EXCEPT !.mem[a].parent = b]
        m4 == [m3 EXCEPT !.mem[b].left = a]
    IN [m4 EXCEPT !.mem[a].right = c]

\* tree_left_rotate_rewire without line 264 (b->left = a).
tree_left_rotate_rewire_no_link(m, node, a, b, c, p) ==
    IF ~Running(m) THEN m ELSE
    LET m1 == Store(m, node, b)
        m2 == [m1 EXCEPT !.mem[b].parent = p]
        m3 == [m2 EXCEPT !.mem[a].parent = b]
        m5 == SetParentIfAny(m3, c, a)
    IN [m5 EXCEPT !.mem[a].right = c]

\* avl.c:261-266
tree_left_rotate_rewire(m, node, a, b, c, p) ==
    IF ~Running(m) THEN m ELSE
    LET m1 == Store(m, node, b)
        m2 == [m1 EXCEPT !.mem[b].parent = p]
        m3 == [m2 EXCEPT !.mem[a].parent = b]
        m4 == [m3 EXCEPT !.mem[b].left = a]
        m5 == SetParentIfAny(m4, c, a)
    IN [m5 EXCEPT !.mem[a].right = c]

\* avl.c:272
tree_left_rotate_update_a(m, a, b) ==
    IF ~Running(m) THEN m ELSE
    [m EXCEPT !.mem[a].imbalance =
        @ + (-1 - (IF m.mem[b].imbalance > 0 THEN m.mem[b].imbalance ELSE 0))]

\* avl.c:273
tree_left_rotate_update_b(m, a, b) ==
    IF ~Running(m) THEN m ELSE
    [m EXCEPT !.mem[b].imbalance =
        @ + (-1 + (IF m.mem[a].imbalance > 0 THEN m.mem[a].imbalance ELSE 0))]

tree_left_rotate(m, node) ==
    IF ~Running(m) THEN m ELSE
    LET a == Deref(m, node) IN
    IF a = NULL THEN Segv(m, "segv_left_rotate_a") ELSE
    LET b == m.mem[a].right IN
    IF b = NULL THEN Segv(m, "segv_left_rotate_b") ELSE
    LET c == m.mem[b].left
        p == m.mem[a].parent
        m0 == assert(m, m.mem[a].imbalance > 0, "assert_left_rotate_pre")
        e0 == LogRotation(m0, "tree_left_rotate_entry", a, b)
        e1 == LogMeasured(e0, "tree_left_rotate_entry_measured", a, b)
        m1 == tree_left_rotate_rewire(e1, node, a, b, c, p)
        m2 == tree_left_rotate_update_a(m1, a, b)
        m3 == tree_left_rotate_update_b(m2, a, b)
        m4 == LogRotation(m3, "tree_left_rotate", a, b)
        m5 == LogMeasured(m4, "tree_left_rotate_measured", a, b)
    IN tree_rotate_asserts(m5, a, b, "assert_left_rotate_a", "assert_left_rotate_b")

\* avl.c:300-305
tree_right_rotate_rewire(m, node, a, b, c, p) ==
    IF ~Running(m) THEN m ELSE
    LET m1 == Store(m, node, b)
        m2 == [m1 EXCEPT !.mem[b].parent = p]
        m3 == [m2 EXCEPT !.mem[a].parent = b]
        m4 == [m3 EXCEPT !.mem[b].right = a]
        m5 == SetParentIfAny(m4, c, a)
    IN [m5 EXCEPT !.mem[a].left = c]

\* avl.c:307
tree_right_rotate_update_a(m, a, b) ==
    IF ~Running(m) THEN m ELSE
    [m EXCEPT !.mem[a].imbalance =
        @ + (1 - (IF m.mem[b].imbalance < 0 THEN m.mem[b].imbalance ELSE 0))]

\* avl.c:308
tree_right_rotate_update_b(m, a, b) ==
    IF ~Running(m) THEN m ELSE
    [m EXCEPT !.mem[b].imbalance =
        @ + (1 + (IF m.mem[a].imbalance < 0 THEN m.mem[a].imbalance ELSE 0))]

\* tree_right_rotate with c taken from b->left, as tree_left_rotate does.
tree_right_rotate_wrong_c(m, node) ==
    IF ~Running(m) THEN m ELSE
    LET a == Deref(m, node) IN
    IF a = NULL THEN Segv(m, "segv_right_rotate_a") ELSE
    LET m0 == assert(m, m.mem[a].imbalance < 0, "assert_right_rotate_pre")
        b == m.mem[a].left
    IN
    IF ~Running(m0) THEN m0 ELSE
    IF b = NULL THEN Segv(m0, "segv_right_rotate_b") ELSE
    LET c == m.mem[b].left
        p == m.mem[a].parent
        e0 == LogRotation(m0, "tree_right_rotate_entry", a, b)
        e1 == LogMeasured(e0, "tree_right_rotate_entry_measured", a, b)
        m1 == tree_right_rotate_rewire(e1, node, a, b, c, p)
        m2 == tree_right_rotate_update_a(m1, a, b)
        m3 == tree_right_rotate_update_b(m2, a, b)
        m4 == LogRotation(m3, "tree_right_rotate", a, b)
        m5 == LogMeasured(m4, "tree_right_rotate_measured", a, b)
    IN tree_rotate_asserts(m5, a, b, "assert_right_rotate_a", "assert_right_rotate_b")

tree_right_rotate(m, node) ==
    IF ~Running(m) THEN m ELSE
    LET a == Deref(m, node) IN
    IF a = NULL THEN Segv(m, "segv_right_rotate_a") ELSE
    LET m0 == assert(m, m.mem[a].imbalance < 0, "assert_right_rotate_pre")
        b == m.mem[a].left
    IN
    IF ~Running(m0) THEN m0 ELSE
    IF b = NULL THEN Segv(m0, "segv_right_rotate_b") ELSE
    LET c == m.mem[b].right
        p == m.mem[a].parent
        e0 == LogRotation(m0, "tree_right_rotate_entry", a, b)
        e1 == LogMeasured(e0, "tree_right_rotate_entry_measured", a, b)
        m1 == tree_right_rotate_rewire(e1, node, a, b, c, p)
        m2 == tree_right_rotate_update_a(m1, a, b)
        m3 == tree_right_rotate_update_b(m2, a, b)
        m4 == LogRotation(m3, "tree_right_rotate", a, b)
        m5 == LogMeasured(m4, "tree_right_rotate_measured", a, b)
    IN tree_rotate_asserts(m5, a, b, "assert_right_rotate_a", "assert_right_rotate_b")

\* tree_rotate that handles the right-heavy case only (no branch for -2).
tree_rotate_right_heavy_only(m, node) ==
    IF ~Running(m) THEN m ELSE
    LET n == Deref(m, node) IN
    IF n = NULL THEN Segv(m, "segv_rotate_node") ELSE
    LET imbalance == m.mem[n].imbalance
        m0 == Emit(m, Event("tree_rotate", n, NULL, imbalance, 0))
    IN
    IF imbalance = 2 THEN
        IF m.mem[n].right = NULL THEN Segv(m0, "segv_rotate_right") ELSE
        tree_left_rotate(IF m.mem[m.mem[n].right].imbalance < 0
                         THEN tree_right_rotate(m0, RightSlot(n))
                         ELSE m0,
                         node)
    ELSE m0

\* tree_rotate that never rotates the child first (single rotations only).
tree_rotate_single_only(m, node) ==
    IF ~Running(m) THEN m ELSE
    LET n == Deref(m, node) IN
    IF n = NULL THEN Segv(m, "segv_rotate_node") ELSE
    LET imbalance == m.mem[n].imbalance
        m0 == Emit(m, Event("tree_rotate", n, NULL, imbalance, 0))
    IN
    IF imbalance = 2 THEN
        IF m.mem[n].right = NULL THEN Segv(m0, "segv_rotate_right") ELSE
        tree_left_rotate(m0, node)
    ELSE IF imbalance = -2 THEN
        IF m.mem[n].left = NULL THEN Segv(m0, "segv_rotate_left") ELSE
        tree_right_rotate(m0, node)
    ELSE m0

\* tree_rotate that handles the left-heavy case only (no branch for +2).
tree_rotate_left_heavy_only(m, node) ==
    IF ~Running(m) THEN m ELSE
    LET n == Deref(m, node) IN
    IF n = NULL THEN Segv(m, "segv_rotate_node") ELSE
    LET imbalance == m.mem[n].imbalance
        m0 == Emit(m, Event("tree_rotate", n, NULL, imbalance, 0))
    IN
    IF imbalance = -2 THEN
        IF m.mem[n].left = NULL THEN Segv(m0, "segv_rotate_left") ELSE
        tree_right_rotate(IF m.mem[m.mem[n].left].imbalance > 0
                          THEN tree_left_rotate(m0, LeftSlot(n))
                          ELSE m0,
                          node)
    ELSE m0

\* tree_rotate whose +2 branch looks at the left child's imbalance, as the
\* -2 branch does.
tree_rotate_wrong_child(m, node) ==
    IF ~Running(m) THEN m ELSE
    LET n == Deref(m, node) IN
    IF n = NULL THEN Segv(m, "segv_rotate_node") ELSE
    LET imbalance == m.mem[n].imbalance
        m0 == Emit(m, Event("tree_rotate", n, NULL, imbalance, 0))
    IN
    IF imbalance = 2 THEN
        IF m.mem[n].left = NULL THEN Segv(m0, "segv_rotate_left") ELSE
        tree_left_rotate(IF m.mem[m.mem[n].left].imbalance < 0
                         THEN tree_right_rotate(m0, RightSlot(n))
                         ELSE m0,
                         node)
    ELSE IF imbalance = -2 THEN
        IF m.mem[n].left = NULL THEN Segv(m0, "segv_rotate_left") ELSE
        tree_right_rotate(IF m.mem[m.mem[n].left].imbalance > 0
                          THEN tree_left_rotate(m0, LeftSlot(n))
                          ELSE m0,
                          node)
    ELSE m0

tree_rotate(m, node) ==
    IF ~Running(m) THEN m ELSE
    LET n == Deref(m, node) IN
    IF n = NULL THEN Segv(m, "segv_rotate_node") ELSE
    LET imbalance == m.mem[n].imbalance
        m0 == Emit(m, Event("tree_rotate", n, NULL, imbalance, 0))
    IN
    IF imbalance = 2 THEN
        IF m.mem[n].right = NULL THEN Segv(m0, "segv_rotate_right") ELSE
        tree_left_rotate(IF m.mem[m.mem[n].right].imbalance < 0
                         THEN tree_right_rotate(m0, RightSlot(n))
                         ELSE m0,
                         node)
    ELSE IF imbalance = -2 THEN
        IF m.mem[n].left = NULL THEN Segv(m0, "segv_rotate_left") ELSE
        tree_right_rotate(IF m.mem[m.mem[n].left].imbalance > 0
                          THEN tree_left_rotate(m0, LeftSlot(n))
                          ELSE m0,
                          node)
    ELSE m0

-----------------------------------------------------------------------------
(* Rebalance propagation *)

RECURSIVE tree_rebalance(_, _, _)

\* What tree_rotate (avl.c:181, 188) did to the slot that held node, for the
\* log: m0 is the machine before the call and m the machine after it.  The
\* event names node and the node that the slot holds now, the height that
\* the subtree in the slot measures now, and 1 or 0 as the subtree's nodes
\* are or are not in the same left-to-right order as before the call (the
\* key of the new node is written only at avl.c:102, so nodes are compared).
LogSlotRotated(m0, m, node) ==
    IF ~Running(m) THEN m ELSE
    Emit(m, Event("tree_rebalance_rotated", node, Deref(m, TREE_PARENTPTR(m0, node)),
                  Height(m, Deref(m, TREE_PARENTPTR(m0, node))),
                  IF InOrderNodes(m, Deref(m, TREE_PARENTPTR(m0, node)))
                         = InOrderNodes(m0, node)
                  THEN 1 ELSE 0))

\* avl.c:165-166: the entry assertions.
tree_rebalance_entry(m, node, bf) ==
    IF ~Running(m) THEN m ELSE
    assert(assert(Emit(m, Event("tree_rebalance", node, m.mem[node].parent,
                                m.mem[node].imbalance, bf)),
                  m.mem[node].imbalance \in {1, 0, -1}, "assert_rebalance_pre"),
           bf = 1 \/ bf = -1, "assert_rebalance_bf")

\* avl.c:167
tree_rebalance_add(m, node, bf) ==
    IF ~Running(m) THEN m ELSE [m EXCEPT !.mem[node].imbalance = @ + bf]

\* avl.c:170
tree_rebalance_mid(m, node, bf) ==
    assert(m, m.mem[node].imbalance \in {0, bf, 2 * bf}, "assert_rebalance_mid")

\* The switch with the break of case 0 missing (avl.c:174), so that an
\* imbalance that became 0 falls through to the propagation of case +-1.
tree_rebalance_switch_fallthrough(m, node, bf) ==
    IF ~Running(m) THEN m ELSE
    CASE m.mem[node].imbalance * bf \in {0, 1} ->
             IF m.mem[node].parent # NULL
             THEN tree_rebalance(m, m.mem[node].parent, TREE_SIDEOF(m, node))
             ELSE m
      [] m.mem[node].imbalance * bf = 2 ->
             LogSlotRotated(m, tree_rotate(m, TREE_PARENTPTR(m, node)), node)
      [] OTHER -> m

\* avl.c:172-194: the switch.
tree_rebalance_switch(m, node, bf) ==
    IF ~Running(m) THEN m ELSE
    CASE m.mem[node].imbalance * bf = 1 ->
             IF m.mem[node].parent # NULL
             THEN tree_rebalance(m, m.mem[node].parent, TREE_SIDEOF(m, node))
             ELSE m
      [] m.mem[node].imbalance * bf = 2 ->
             LogSlotRotated(m, tree_rotate(m, TREE_PARENTPTR(m, node)), node)
      [] OTHER -> m

\* avl.c:196
tree_rebalance_exit(m, node) ==
    assert(m, m.mem[node].imbalance \in {1, 0, -1}, "assert_rebalance_post")

tree_rebalance(m, node, bf) ==
    LET m1 == tree_rebalance_entry(m, node, bf)
        m2 == tree_rebalance_add(m1, node, bf)
        m3 == tree_rebalance_mid(m2, node, bf)
        m4 == tree_rebalance_switch(m3, node, bf)
    IN tree_rebalance_exit(m4, node)

-----------------------------------------------------------------------------
(* Insertion *)

\* avl.c:127-128
SetChild(m, parent, right, node) ==
    IF right THEN [m EXCEPT !.mem[parent].right = node]
             ELSE [m EXCEPT !.mem[parent].left = node]

\* tree_insert_under that tests malloc's result only after it has linked the
\* node and rebalanced.
tree_insert_under_late_check(m, parent, right, alloc) ==
    LET m0 == malloc(m, alloc)
        m1 == IF alloc = NULL THEN m0
              ELSE StoreNode(m0, alloc, tree_node(NULL, NULL, parent, 0, 0))
        m2 == SetChild(m1, parent, right, alloc)
        m3 == tree_rebalance(m2, parent, IF right THEN 1 ELSE -1)
    IN [m3 EXCEPT !.ret = alloc]

tree_insert_under(m, parent, right, alloc) ==
    LET m0 == malloc(m, alloc)
        node == alloc
    IN
    IF node = NULL THEN m0 ELSE
    LET m1 == StoreNode(m0, node, tree_node(NULL, NULL, parent, 0, 0))
        m2 == SetChild(m1, parent, right, node)
        m3 == tree_rebalance(m2, parent, IF right THEN 1 ELSE -1)
    IN [m3 EXCEPT !.ret = node]

tree_create_root(m, alloc) ==
    LET m1 == [malloc(m, alloc) EXCEPT !.root = alloc] IN
    IF alloc = NULL THEN [m1 EXCEPT !.ret = NULL] ELSE
    [StoreNode(m1, alloc, tree_node(NULL, NULL, NULL, 0, 0)) EXCEPT !.ret = alloc]

\* The while loop with break in place of return on an equal key.
RECURSIVE tree_put_walk_break(_, _, _, _)
tree_put_walk_break(m, dest, parent, key) ==
    IF Deref(m, dest) = NULL
    THEN [dest |-> dest, parent |-> parent, found |-> FALSE]
    ELSE LET p == Deref(m, dest) IN
         IF key > m.mem[p].key THEN tree_put_walk_break(m, RightSlot(p), p, key)
         ELSE IF key < m.mem[p].key THEN tree_put_walk_break(m, LeftSlot(p), p, key)
         ELSE [dest |-> dest, parent |-> p, found |-> FALSE]

\* The while loop of tree_put (avl.c:84-93): the slot where key belongs, the
\* node that owns the slot, and whether key was met on the way down.
RECURSIVE tree_put_walk(_, _, _, _)
tree_put_walk(m, dest, parent, key) ==
    IF Deref(m, dest) = NULL
    THEN [dest |-> dest, parent |-> parent, found |-> FALSE]
    ELSE LET p == Deref(m, dest) IN
         IF key > m.mem[p].key THEN tree_put_walk(m, RightSlot(p), p, key)
         ELSE IF key < m.mem[p].key THEN tree_put_walk(m, LeftSlot(p), p, key)
         ELSE [dest |-> dest, parent |-> p, found |-> TRUE]

\* avl.c:99-102
tree_put_init_key(m, key) ==
    IF ~Running(m) \/ m.ret = NULL THEN m
    ELSE [m EXCEPT !.mem[m.ret].key = key]

\* tree_put_new_node that passes dest == &parent->left as the side.
tree_put_new_node_wrong_side(m, w, key, alloc) ==
    IF w.found THEN m ELSE
    tree_put_init_key(IF w.parent = NULL
                      THEN tree_create_root(m, alloc)
                      ELSE tree_insert_under(m, w.parent,
                                             w.dest = LeftSlot(w.parent), alloc),
                      key)

\* avl.c:92-102, w being where the loop stopped.
tree_put_new_node(m, w, key, alloc) ==
    IF w.found THEN m ELSE
    tree_put_init_key(IF w.parent = NULL
                      THEN tree_create_root(m, alloc)
                      ELSE tree_insert_under(m, w.parent,
                                             w.dest = RightSlot(w.parent), alloc),
                      key)

tree_put(m, key, alloc) ==
    tree_put_new_node(m, tree_put_walk(m, RootSlot, NULL, key), key, alloc)

-----------------------------------------------------------------------------
(* Teardown *)

RECURSIVE tree_delete_recursive(_, _)

\* A load of a field of *r, for the log: the value read, or NULL when r was
\* already released.
LogRead(m, e, r, v) ==
    Emit(m, Event(e, r, IF r \in DOMAIN m.mem THEN v ELSE NULL, 0, 0))

\* avl.c:69
tree_delete_left(m, r) ==
    IF ~Running(m) THEN m ELSE
    \* root->left of a node that was already released
    IF r \notin DOMAIN m.mem THEN Segv(LogRead(m, "read_left", r, NULL), "use_after_free") ELSE
    IF m.mem[r].left # NULL
    THEN tree_delete_recursive(LogRead(m, "read_left", r, m.mem[r].left), m.mem[r].left)
    ELSE LogRead(m, "read_left", r, NULL)

\* avl.c:70
tree_delete_right(m, r) ==
    IF ~Running(m) THEN m ELSE
    IF r \notin DOMAIN m.mem THEN Segv(LogRead(m, "read_right", r, NULL), "use_after_free") ELSE
    IF m.mem[r].right # NULL
    THEN tree_delete_recursive(LogRead(m, "read_right", r, m.mem[r].right), m.mem[r].right)
    ELSE LogRead(m, "read_right", r, NULL)

\* tree_delete_recursive with lines 69 and 70 exchanged (right subtree first).
tree_delete_recursive_right_first(m, r) ==
    free(tree_delete_left(tree_delete_right(m, r), r), r)

tree_delete_recursive(m, r) ==
    free(tree_delete_right(tree_delete_left(m, r), r), r)

tree_delete(m) ==
    IF m.root # NULL THEN tree_delete_recursive(m, m.root) ELSE m

-----------------------------------------------------------------------------
(* The clients *)

tree_init == [root |-> NULL, mem |-> [n \in {} |-> tree_node(NULL, NULL, NULL, 0, 0)]]

\* The allocator hands out any unused address.  The program only compares
\* addresses for equality, so the model names the new cell after the key
\* the caller is about to store in it when that address is unused, and
\* takes the lowest unused address otherwise.
FreshAddr(key) ==
    IF key \notin DOMAIN mem THEN key
    ELSE CHOOSE a \in 1..(Cardinality(DOMAIN mem) + 1) :
            /\ a \notin DOMAIN mem
            /\ \A b \in 1..(a - 1) : b \in DOMAIN mem

\* main calls tree_delete last (avl.c:325); after it t->root dangles, so a
\* client makes no further call on a torn-down tree.
Usable == fault = "none" /\ (root = NULL \/ root \in DOMAIN mem)

Commit(m, c) ==
    /\ root' = m.root
    /\ mem' = m.mem
    /\ fault' = m.fault
    /\ log' = m.log
    /\ pre' = [root |-> root, mem |-> mem]
    /\ call' = c

InitTree ==
    /\ NDEBUG \in BOOLEAN
    /\ root = tree_init.root
    /\ mem = tree_init.mem
    /\ fault = "none"
    /\ log = <<>>
    /\ pre = tree_init
    /\ call = [op |-> "tree_init", key |-> 0, alloc |-> NULL]
    /\ oom = FALSE

\* Free-running client: any key, any allocator outcome, teardown at any time.
Init ==
    /\ InitTree
    /\ script = <<>>
    /\ pc = 0

Put(key, alloc) ==
    /\ Usable
    /\ Commit(tree_put(Machine, key, alloc),
              [op |-> "tree_put", key |-> key, alloc |-> alloc])
    /\ UNCHANGED <<NDEBUG, script, pc, oom>>

Delete ==
    /\ Usable
    /\ Commit(tree_delete(Machine), [op |-> "tree_delete", key |-> 0, alloc |-> NULL])
    /\ UNCHANGED <<NDEBUG, script, pc, oom>>

Next ==
    \/ \E key \in Keys : \E alloc \in {NULL, FreshAddr(key)} : Put(key, alloc)
    \/ Delete

Spec == Init /\ [][Next]_vars

\* Scripted client: main(), where each malloc may succeed or fail.
InitMain ==
    /\ InitTree
    /\ script = MainScript
    /\ pc = 1

\* Some malloc of the call that produced m returned NULL.
MallocFailedIn(m) ==
    \E i \in 1..Len(m.log) : m.log[i].ev = "malloc" /\ m.log[i].a = NULL

MainCommit(m, key, alloc) ==
    /\ Commit(m, [op |-> "tree_put", key |-> key, alloc |-> alloc])
    /\ oom' = (oom \/ MallocFailedIn(m))

MainPut ==
    /\ Usable
    /\ pc <= Len(script)
    /\ \E alloc \in {NULL, FreshAddr(script[pc])} :
          MainCommit(tree_put(Machine, script[pc], alloc), script[pc], alloc)
    /\ pc' = pc + 1
    /\ UNCHANGED <<NDEBUG, script>>

MainDelete ==
    /\ Usable
    /\ pc = Len(script) + 1
    /\ Commit(tree_delete(Machine), [op |-> "tree_delete", key |-> 0, alloc |-> NULL])
    /\ pc' = pc + 1
    /\ UNCHANGED <<NDEBUG, script, oom>>

NextMain == MainPut \/ MainDelete

SpecMain == InitMain /\ [][NextMain]_vars

\* Scripted client of the same shape as main, putting the keys 1..7 in
\* ascending order.
AscendingScript == <<1, 2, 3, 4, 5, 6, 7>>

InitAscending ==
    /\ InitTree
    /\ script = AscendingScript
    /\ pc = 1

SpecAscending == InitAscending /\ [][NextMain]_vars

-----------------------------------------------------------------------------
(* Measurements over a snapshot s = [root, mem], made from the child links  *)
(* alone.  fuel bounds the descent, so that they are defined on any heap.   *)

Now == [root |-> root, mem |-> mem]

RECURSIVE NodesFrom(_, _, _)
NodesFrom(s, n, fuel) ==
    IF ~Live(s, n) \/ fuel = 0 THEN {}
    ELSE {n} \cup NodesFrom(s, s.mem[n].left, fuel - 1)
             \cup NodesFrom(s, s.mem[n].right, fuel - 1)

Subtree(s, n) == NodesFrom(s, n, Cardinality(DOMAIN s.mem))

TreeNodes(s) == Subtree(s, s.root)

TreeKeys(s) == {s.mem[n].key : n \in TreeNodes(s)}

RECURSIVE InOrderFrom(_, _, _)
InOrderFrom(s, n, fuel) ==
    IF ~Live(s, n) \/ fuel = 0 THEN <<>>
    ELSE InOrderFrom(s, s.mem[n].left, fuel - 1) \o <<s.mem[n].key>>
         \o InOrderFrom(s, s.mem[n].right, fuel - 1)

InOrder(s) == InOrderFrom(s, s.root, Cardinality(DOMAIN s.mem))

ImbalanceExact(s) ==
    \A n \in TreeNodes(s) : s.mem[n].imbalance = MeasuredImbalance(s, n)

ImbalanceInRange(s) ==
    \A n \in DOMAIN s.mem : s.mem[n].imbalance \in {-1, 0, 1}

HeightBalanced(s) ==
    \A n \in TreeNodes(s) : MeasuredImbalance(s, n) \in {-1, 0, 1}

SearchTree(s) ==
    \A n \in TreeNodes(s) :
        /\ \A x \in Subtree(s, s.mem[n].left) : s.mem[x].key < s.mem[n].key
        /\ \A x \in Subtree(s, s.mem[n].right) : s.mem[x].key > s.mem[n].key

ParentConsistent(s) ==
    /\ s.root # NULL => s.mem[s.root].parent = NULL
    /\ \A n \in DOMAIN s.mem \ {s.root} :
          LET p == s.mem[n].parent IN
          /\ Live(s, p)
          /\ (s.mem[p].left = n) # (s.mem[p].right = n)

\* The latest call was a tree_put and it returned to its caller.
PutReturned == call.op = "tree_put" /\ fault = "none"

HasEvent(e) == \E i \in 1..Len(log) : log[i].ev = e

-----------------------------------------------------------------------------
(* Claims *)

\* C1: after every tree_put call returns, every node's stored imbalance
\* equals height(right subtree) - height(left subtree), the heights being
\* measured over the child links.
C1_StoredImbalanceIsMeasured == PutReturned => ImbalanceExact(Now)

\* C2: after every tree_put call returns, every node's stored imbalance is
\* one of -1, 0, +1; a +2 or -2 made during rebalancing is gone.
C2_StoredImbalanceInRange == PutReturned => ImbalanceInRange(Now)

\* A tree_put that went through tree_rotate (a node had reached +2 or -2)
\* and returned.
C2_Witness ==
    /\ PutReturned
    /\ \E i \in 1..Len(log) : log[i].ev = "tree_rotate" /\ log[i].x \in {2, -2}

\* C3: after any sequence of tree_put calls, the measured heights of the two
\* subtrees of every node differ by at most 1.
C3_HeightBalanced == Usable => HeightBalanced(Now)

\* C4: after any sequence of tree_put calls, every key in a node's left
\* subtree is smaller than the node's key and every key in its right subtree
\* is larger.
C4_SearchTree == Usable => SearchTree(Now)

\* A tree_put whose new node was moved by a double rotation to the top of
\* the rotated subtree before its key was written.
C4_Witness ==
    /\ PutReturned
    /\ HasEvent("tree_left_rotate") /\ HasEvent("tree_right_rotate")
    /\ Live(Now, call.alloc)
    /\ mem[call.alloc].left # NULL /\ mem[call.alloc].right # NULL
    /\ mem[call.alloc].key = call.key

\* C5: after any sequence of tree_put calls, exactly one of the two child
\* links of every non-root node's parent points to the node, and the root's
\* parent is NULL.
C5_ParentConsistent == Usable => ParentConsistent(Now)

\* A tree_put that left-rotated a node a whose new right child c exists and
\* was handed over from the promoted node b.
C5_Witness ==
    /\ PutReturned
    /\ \E i \in 1..Len(log) :
          /\ log[i].ev = "tree_left_rotate"
          /\ mem[log[i].a].right # NULL
          /\ pre.mem[mem[log[i].a].right].parent = log[i].b

\* C6: a tree_put of a key that is not in the tree, with malloc succeeding,
\* allocates exactly one node: one more node is reachable from the root and
\* the keys of the tree are the old keys plus the new one.
C6_PutNewKeyAddsOneNode ==
    (PutReturned /\ call.key \notin TreeKeys(pre) /\ call.alloc # NULL) =>
        /\ DOMAIN mem = DOMAIN pre.mem \cup {call.alloc}
        /\ Cardinality(DOMAIN mem) = Cardinality(DOMAIN pre.mem) + 1
        /\ Cardinality(TreeNodes(Now)) = Cardinality(TreeNodes(pre)) + 1
        /\ TreeKeys(Now) = TreeKeys(pre) \cup {call.key}

\* A new key was inserted under an existing node and the insert rotated.
C6_Witness ==
    /\ PutReturned /\ call.key \notin TreeKeys(pre) /\ call.alloc # NULL
    /\ HasEvent("tree_right_rotate")
    /\ Cardinality(TreeNodes(pre)) >= 4

\* C7: a tree_put of a key that is already in the tree allocates nothing and
\* leaves root and every field of every node as they were.
C7_PutPresentKeyIsNoOp ==
    (PutReturned /\ call.key \in TreeKeys(pre)) =>
        /\ Now = pre
        /\ ~HasEvent("malloc")

\* A key held by a node below the root is put again while the allocator
\* would have served the request.
C7_Witness ==
    /\ PutReturned /\ call.key \in TreeKeys(pre) /\ call.alloc # NULL
    /\ pre.mem[pre.root].key # call.key
    /\ Cardinality(TreeNodes(pre)) >= 3

\* C8: after tree_delete returns the root link is NULL and no node is
\* reachable from the tree; on an empty tree tree_delete changes nothing.
C8_DeleteLeavesTreeEmpty ==
    (call.op = "tree_delete" /\ fault = "none") =>
        /\ root = NULL
        /\ TreeNodes(Now) = {}
        /\ pre.root = NULL => Now = pre

MallocFailed == \E i \in 1..Len(log) : log[i].ev = "malloc" /\ log[i].a = NULL

\* C9: when malloc fails inside tree_put, on an empty or a non-empty tree,
\* root and every field of every node are as before the call, and every
\* invariant the tree satisfied before the call it satisfies after it.
C9_AllocationFailureChangesNothing ==
    (PutReturned /\ MallocFailed) =>
        /\ Now = pre
        /\ ImbalanceInRange(pre) => ImbalanceInRange(Now)
        /\ ImbalanceExact(pre) => ImbalanceExact(Now)
        /\ HeightBalanced(pre) => HeightBalanced(Now)
        /\ SearchTree(pre) => SearchTree(Now)
        /\ ParentConsistent(pre) => ParentConsistent(Now)

\* malloc failed for a key that belonged under a node of a non-empty tree.
C9_Witness ==
    /\ PutReturned /\ MallocFailed
    /\ Cardinality(TreeNodes(pre)) >= 2
    /\ call.key \notin TreeKeys(pre)

\* main has made its nine tree_put calls, every malloc succeeded, and
\* tree_delete has not run yet.
MainInserted ==
    /\ script = MainScript
    /\ pc = Len(script) + 1
    /\ ~oom
    /\ fault = "none"

\* C10 as stated: the nine inserts of main leave 8 nodes, root key 6, every
\* node balanced, and in-order traversal 1,2,4,5,6,8,10,12.
C10_MainScenarioRootSix ==
    MainInserted =>
        /\ Cardinality(TreeNodes(Now)) = 8
        /\ mem[root].key = 6
        /\ ImbalanceInRange(Now) /\ ImbalanceExact(Now)
        /\ InOrder(Now) = <<1, 2, 4, 5, 6, 8, 10, 12>>

\* C10 amended: the nine inserts of main leave 8 nodes, root key 5, every
\* node balanced, and in-order traversal 1,2,4,5,6,8,10,12.
C10_MainScenario ==
    MainInserted =>
        /\ Cardinality(TreeNodes(Now)) = 8
        /\ mem[root].key = 5
        /\ ImbalanceInRange(Now) /\ ImbalanceExact(Now)
        /\ InOrder(Now) = <<1, 2, 4, 5, 6, 8, 10, 12>>

\* main's last insert (key 1) has returned.
C10_Witness == MainInserted /\ call.key = 1 /\ Cardinality(DOMAIN mem) = 8

\* A rotation function ran during the latest call.
Rotated == HasEvent("tree_left_rotate") \/ HasEvent("tree_right_rotate")

\* The first k keys of the ascending script were all put, each with a
\* successful allocation, and the k-th put is the latest call.
AscendingInserted(k) ==
    /\ script = AscendingScript
    /\ pc = k + 1
    /\ ~oom
    /\ PutReturned

\* C11: putting the keys 1, 2, ..., 7 in ascending order into an empty tree
\* rotates no later than the third put (the third put itself rotates), and
\* ends with a tree of height 3 whose root holds the key 4.
C11_AscendingInserts ==
    /\ AscendingInserted(3) => Rotated
    /\ AscendingInserted(7) =>
          /\ Height(Now, root) = 3
          /\ mem[root].key = 4

C11_Witness ==
    /\ AscendingInserted(7)
    /\ InOrder(Now) = AscendingScript

RECURSIVE Fib(_)
Fib(k) == IF k <= 1 THEN k ELSE Fib(k - 1) + Fib(k - 2)

\* C12: whenever tree_put has returned, a tree of height h holds at least
\* Fib(h + 2) - 1 nodes (the form of the bound h <= 1.44 log2(n + 2) that
\* needs no logarithm).
C12_HeightBound ==
    PutReturned =>
        Cardinality(TreeNodes(Now)) >= Fib(Height(Now, root) + 2) - 1

RotationEvents ==
    {i \in 1..Len(log) : log[i].ev \in {"tree_left_rotate", "tree_right_rotate"}}

RotationAssertFaults ==
    {"assert_left_rotate_a", "assert_left_rotate_b",
     "assert_right_rotate_a", "assert_right_rotate_b"}

\* C13: every rotation made during a tree_put (the first rotation of a
\* double rotation included) leaves the imbalances of a and b in
\* {-1, 0, +1}, so the closing range assertions of tree_left_rotate and
\* tree_right_rotate never fail.
C13_RotationResultsInRange ==
    call.op = "tree_put" =>
        /\ fault \notin RotationAssertFaults
        /\ \A i \in RotationEvents :
              log[i].x \in {-1, 0, 1} /\ log[i].y \in {-1, 0, 1}

\* The log positions at which a rotation function was entered.  The four
\* events of one rotation are consecutive: imbalances stored at entry,
\* measured at entry, stored after the update, measured after the rewiring.
RotationEntries ==
    {i \in 1..Len(log) :
        log[i].ev \in {"tree_left_rotate_entry", "tree_right_rotate_entry"}}

SameImbalances(e, f) == e.x = f.x /\ e.y = f.y

\* C14: when tree_left_rotate or tree_right_rotate is entered with the
\* stored imbalances of a and b equal to the height differences their
\* subtrees measure, the imbalances that the arithmetic update stores in a
\* and b equal the height differences measured on the rewired subtree.
C14_RotationUpdateIsExact ==
    \A i \in RotationEntries :
        SameImbalances(log[i], log[i + 1]) => SameImbalances(log[i + 2], log[i + 3])

SlotsRotated == {i \in 1..Len(log) : log[i].ev = "tree_rebalance_rotated"}

\* C15: whenever tree_rebalance reaches the rotation case during a put and
\* tree_rotate returns, the subtree in the rotated slot measures the height
\* that the subtree in that slot measured before the put started, and its
\* nodes (hence its keys) are in the same left-to-right order as just
\* before the rotation.
C15_RotationRestoresHeight ==
    call.op = "tree_put" =>
        \A i \in SlotsRotated :
            /\ log[i].x = Height(pre, log[i].a)
            /\ log[i].y = 1

Rebalances == {i \in 1..Len(log) : log[i].ev = "tree_rebalance"}

\* The tree_rebalance calls of the latest put at which the propagation has
\* to stop: the updated imbalance is 0, or it is 2 * bf and the node is
\* rotated, or the node is the root.
Stops ==
    {i \in Rebalances : (log[i].x + log[i].y) * log[i].y # 1 \/ log[i].b = NULL}

\* The nodes strictly above n in the heap s.
Above(s, n) == {q \in TreeNodes(s) : n \in Subtree(s, q) \ {q}}

\* q is as it was before the latest call, but for a child link that held
\* node, which may have changed if node was rotated.
KeptAbove(q, node) ==
    /\ mem[q].imbalance = pre.mem[q].imbalance
    /\ mem[q].key = pre.mem[q].key
    /\ mem[q].parent = pre.mem[q].parent
    /\ mem[q].left = pre.mem[q].left \/ (pre.mem[q].left = node /\ HasEvent("tree_rotate"))
    /\ mem[q].right = pre.mem[q].right \/ (pre.mem[q].right = node /\ HasEvent("tree_rotate"))

\* C16: within one tree_put the propagation stops at the first ancestor
\* whose updated imbalance is 0 or that is rotated: no tree_rebalance call
\* follows such a call, tree_rotate is called at most once, and every node
\* strictly above the node where the propagation stopped keeps its
\* imbalance, key, parent and child links (but for the one child link that
\* held a rotated node).
C16_PropagationStops ==
    call.op = "tree_put" =>
        /\ Cardinality({i \in 1..Len(log) : log[i].ev = "tree_rotate"}) <= 1
        /\ \A i \in Stops :
              /\ \A j \in Rebalances : j <= i
              /\ \A q \in Above(pre, log[i].a) : KeptAbove(q, log[i].a)

\* A put that rotated a node below the root and returned.
C16_Witness ==
    /\ PutReturned
    /\ \E i \in Stops :
          /\ Above(pre, log[i].a) # {}
          /\ HasEvent("tree_rebalance_rotated")

RebalanceAssertFaults ==
    {"assert_rebalance_pre", "assert_rebalance_bf", "assert_rebalance_mid"}

\* C17: every call of tree_rebalance during a put, the first one and the
\* recursive ones, is entered with the node's imbalance in {-1, 0, +1} and
\* with bf equal to +1 or -1, and the updated imbalance is 0, bf or 2 * bf;
\* so the assertions at avl.c:165, 166 and 170 never fail.
C17_RebalanceArguments ==
    call.op = "tree_put" =>
        /\ fault \notin RebalanceAssertFaults
        /\ \A i \in Rebalances :
              /\ log[i].x \in {-1, 0, 1}
              /\ log[i].y \in {-1, 1}
              /\ log[i].x + log[i].y \in {0, log[i].y, 2 * log[i].y}

\* A put that called tree_rebalance on a left and on a right side, the
\* second call being a recursive one, and came back.
C17_Witness ==
    /\ PutReturned
    /\ \E i, j \in Rebalances : i < j /\ log[i].y = -1 /\ log[j].y = 1

RECURSIVE PostOrderFrom(_, _, _)
PostOrderFrom(s, n, fuel) ==
    IF ~Live(s, n) \/ fuel = 0 THEN <<>>
    ELSE PostOrderFrom(s, s.mem[n].left, fuel - 1)
         \o PostOrderFrom(s, s.mem[n].right, fuel - 1) \o <<n>>

\* The nodes of the tree: left subtree, then right subtree, then the node.
PostOrder(s) == PostOrderFrom(s, s.root, Cardinality(DOMAIN s.mem))

IsFree(e) == e.ev = "free"

\* The nodes released by the latest call, in the order of their release.
Released == [i \in 1..Len(SelectSeq(log, IsFree)) |-> SelectSeq(log, IsFree)[i].a]

\* The log positions of the loads of a node's field.
Reads == {i \in 1..Len(log) : log[i].ev \in {"read_left", "read_right"}}

\* The latest call tore down a tree that was not empty.
TornDown == call.op = "tree_delete" /\ pre.root # NULL

\* C18: tree_delete on a non-empty tree releases every reachable node
\* exactly once, in post-order (left subtree, right subtree, node); no node
\* is read after its release; and the teardown reads the child links only,
\* never the parent link.
C18_TeardownPostOrder ==
    TornDown =>
        /\ fault = "none"
        /\ Released = PostOrder(pre)
        /\ Len(Released) = Cardinality(TreeNodes(pre))
        /\ DOMAIN mem = (DOMAIN pre.mem) \ TreeNodes(pre)
        /\ \A i \in Reads : \A j \in 1..(i - 1) : ~(IsFree(log[j]) /\ log[j].a = log[i].a)
        /\ \A i \in 1..Len(log) : IsFree(log[i]) \/ i \in Reads

\* A teardown of a tree whose root has a left and a right subtree, the left
\* one of more than one node.
C18_Witness ==
    /\ TornDown
    /\ fault = "none"
    /\ Cardinality(Subtree(pre, pre.mem[pre.root].left)) >= 2
    /\ pre.mem[pre.root].right # NULL

\* The number of owning slots (the root link, the left and the right links
\* of the allocated nodes) that hold n.
Owners(s, n) ==
    (IF s.root = n THEN 1 ELSE 0)
    + Cardinality({q \in DOMAIN s.mem : s.mem[q].left = n})
    + Cardinality({q \in DOMAIN s.mem : s.mem[q].right = n})

\* C19: after any sequence of tree_put calls every allocated node is held
\* by exactly one owning slot, every allocated node is reachable from the
\* root, and no node is below itself.
C19_SingleOwner ==
    PutReturned =>
        \A n \in DOMAIN mem :
            /\ Owners(Now, n) = 1
            /\ n \in TreeNodes(Now)
            /\ n \notin Subtree(Now, mem[n].left) \cup Subtree(Now, mem[n].right)

\* A tree of at least six nodes, the latest put having made a double
\* rotation.
C19_Witness ==
    /\ PutReturned
    /\ Cardinality(DOMAIN mem) >= 6
    /\ HasEvent("tree_left_rotate") /\ HasEvent("tree_right_rotate")

SegvFaults ==
    {"segv_rotate_node", "segv_rotate_right", "segv_rotate_left",
     "segv_left_rotate_a", "segv_left_rotate_b",
     "segv_right_rotate_a", "segv_right_rotate_b"}

\* C20: the rotation code never dereferences an absent node: no put ends in
\* a load through a null pointer in tree_rotate, tree_left_rotate or
\* tree_right_rotate; every tree_rotate that sees +2 or -2 goes on to enter
\* a rotation function, and every rotation function finds its b.
C20_RotationsFindTheirNodes ==
    call.op = "tree_put" =>
        /\ fault \notin SegvFaults
        /\ \A i \in 1..Len(log) :
              (log[i].ev = "tree_rotate" /\ log[i].x \in {-2, 2}) =>
                  (i + 1) \in RotationEntries
        /\ \A i \in RotationEntries : log[i].a # NULL /\ log[i].b # NULL

\* A returned put whose tree_rotate saw -2 and rotated the left child to
\* the left first.
C20_Witness ==
    /\ PutReturned
    /\ HasEvent("tree_left_rotate")
    /\ \E i \in 1..Len(log) : log[i].ev = "tree_rotate" /\ log[i].x = -2

====
